---- MODULE Spec2Model ----
(***************************************************************************)
(* A model of the CHIP-8 machine of src/chip8/src/lib.rs: the Chip8        *)
(* struct, its host interface (init, load, keypress, reset, clock,         *)
(* clock_timers) and the instruction interpreter (fetch, execute).         *)
(*                                                                         *)
(* Arrays are functions on 0-based index ranges, as in the source.  A Rust *)
(* panic (index out of bounds, arithmetic overflow in a checked build,     *)
(* unimplemented!) is recorded in the variable fault; the machine takes no *)
(* further step once it has faulted, and the other variables then hold     *)
(* what the struct held when the panic was raised.                         *)
(***************************************************************************)
EXTENDS Integers, Sequences, FiniteSets

\* ------------------------------------------------------------------------
\* Program constants
\* ------------------------------------------------------------------------
RAM_SIZE == 4096
SCREEN_WIDTH == 64
SCREEN_HEIGHT == 32
NUM_REGS == 16
STACK_SIZE == 16
START_ADDRESS == 512
NUM_KEYS == 16
FONTSET_SIZE == 80

FONTSET ==
    << 240, 144, 144, 144, 240,
       32, 96, 32, 32, 112,
       240, 16, 240, 128, 240,
       240, 16, 240, 16, 240,
       144, 144, 240, 16, 16,
       240, 128, 240, 16, 240,
       240, 128, 240, 144, 240,
       240, 16, 32, 64, 64,
       240, 144, 240, 144, 240,
       240, 144, 240, 16, 240,
       240, 144, 240, 144, 144,
       224, 144, 224, 144, 224,
       240, 128, 128, 128, 240,
       224, 144, 144, 144, 224,
       240, 128, 240, 128, 240,
       240, 128, 240, 128, 128 >>

\* ------------------------------------------------------------------------
\* Bounds of the model
\* ------------------------------------------------------------------------
\* The host presses and releases the keys 0..MaxKey (and tries the invalid
\* index NUM_KEYS).
MaxKey == 1
\* The host loads at most MaxLoads ROM images between two resets.
MaxLoads == 1
\* The host stops stepping a machine that has executed MaxNops no-op
\* instructions since the last reset (execution running through zeroed
\* memory).
MaxNops == 1

\* ------------------------------------------------------------------------
\* Bit operations on bytes and 16-bit words
\* ------------------------------------------------------------------------
Bit(n, k) == (n \div (2 ^ k)) % 2

BitAnd(a, b) ==
    LET f[k \in 0..16] ==
            IF k = 16 THEN 0
            ELSE (2 ^ k) * (Bit(a, k) * Bit(b, k)) + f[k + 1]
    IN  f[0]

BitOr(a, b) ==
    LET f[k \in 0..16] ==
            IF k = 16 THEN 0
            ELSE (2 ^ k) * (IF Bit(a, k) + Bit(b, k) > 0 THEN 1 ELSE 0) + f[k + 1]
    IN  f[0]

BitXor(a, b) ==
    LET f[k \in 0..16] ==
            IF k = 16 THEN 0
            ELSE (2 ^ k) * ((Bit(a, k) + Bit(b, k)) % 2) + f[k + 1]
    IN  f[0]

\* ------------------------------------------------------------------------
\* State
\* ------------------------------------------------------------------------
VARIABLES
    pc,        \* program counter (u16)
    ram,       \* [0..RAM_SIZE-1 -> byte]
    v_regi,    \* [0..NUM_REGS-1 -> byte]
    i_regi,    \* index register (u16)
    display,   \* [0..SCREEN_WIDTH*SCREEN_HEIGHT-1 -> BOOLEAN], row-major
    stack,     \* [0..STACK_SIZE-1 -> u16]
    stkp,      \* stack pointer (u16)
    delay_t,   \* delay timer (u8)
    sound_t,   \* sound timer (u8)
    keys,      \* [0..NUM_KEYS-1 -> BOOLEAN]
    fault,     \* "none", or the panic that ended the machine
    last,      \* history: the last host call, [op, a, b, c]: for load, a is the
               \* image passed; for clock, a is the
               \* opcode fetched (-1: none) and b the address it was fetched
               \* from, and for a DXYN c is what it read: the display, I,
               \* VX and VY before it; for keypress, a is the index and b is
               \* 1 for pressed;
               \* for reset, a is the pc before the call and b the number
               \* of fields that differed from their construction-time value
    loads,     \* history: load calls since construction or the last reset
    nops,      \* history: no-op instructions executed since then
    written,   \* history: the value last written to the delay timer
    ticks,     \* history: clock_timers calls since that write, counted up to
               \* the value written
    calls      \* history: the addresses of the 2NNN instructions executed
               \* and not yet returned from, the oldest first

chip == << pc, ram, v_regi, i_regi, display, stack, stkp, delay_t, sound_t, keys >>
hist == << last, loads, nops, ticks, written, calls >>
vars == << pc, ram, v_regi, i_regi, display, stack, stkp, delay_t, sound_t, keys,
           fault, last, loads, nops, ticks, written, calls >>

\* The struct as one value.
Self ==
    [ pc |-> pc, ram |-> ram, v_regi |-> v_regi, i_regi |-> i_regi,
      display |-> display, stack |-> stack, stkp |-> stkp,
      delay_t |-> delay_t, sound_t |-> sound_t, keys |-> keys,
      fault |-> fault ]

\* The struct after a call: every field is assigned.
Becomes(m) ==
    /\ pc' = m.pc
    /\ ram' = m.ram
    /\ v_regi' = m.v_regi
    /\ i_regi' = m.i_regi
    /\ display' = m.display
    /\ stack' = m.stack
    /\ stkp' = m.stkp
    /\ delay_t' = m.delay_t
    /\ sound_t' = m.sound_t
    /\ keys' = m.keys
    /\ fault' = m.fault

\* ------------------------------------------------------------------------
\* Construction and the host interface
\* ------------------------------------------------------------------------
\* Chip8::init
init ==
    [ pc |-> START_ADDRESS,
      ram |-> [a \in 0..(RAM_SIZE - 1) |->
                  IF a < FONTSET_SIZE THEN FONTSET[a + 1] ELSE 0],
      v_regi |-> [r \in 0..(NUM_REGS - 1) |-> 0],
      i_regi |-> 0,
      display |-> [c \in 0..(SCREEN_WIDTH * SCREEN_HEIGHT - 1) |-> FALSE],
      stack |-> [s \in 0..(STACK_SIZE - 1) |-> 0],
      stkp |-> 0,
      delay_t |-> 0,
      sound_t |-> 0,
      keys |-> [k \in 0..(NUM_KEYS - 1) |-> FALSE],
      fault |-> "none" ]

\* reset as it would be without the line that clears the stack.
reset_keeping_stack(m) ==
    [ m EXCEPT
        !.pc = START_ADDRESS,
        !.ram = [a \in 0..(RAM_SIZE - 1) |->
                    IF a < FONTSET_SIZE THEN FONTSET[a + 1] ELSE 0],
        !.display = [c \in 0..(SCREEN_WIDTH * SCREEN_HEIGHT - 1) |-> FALSE],
        !.v_regi = [r \in 0..(NUM_REGS - 1) |-> 0],
        !.i_regi = 0,
        !.stkp = 0,
        !.keys = [k \in 0..(NUM_KEYS - 1) |-> FALSE],
        !.delay_t = 0,
        !.sound_t = 0 ]

\* Chip8::reset: the fields are assigned one by one, the font table last.
reset(m) ==
    LET zeroed == [a \in 0..(RAM_SIZE - 1) |-> 0]
    IN  [ m EXCEPT
            !.pc = START_ADDRESS,
            !.ram = [a \in 0..(RAM_SIZE - 1) |->
                        IF a < FONTSET_SIZE THEN FONTSET[a + 1] ELSE zeroed[a]],
            !.display = [c \in 0..(SCREEN_WIDTH * SCREEN_HEIGHT - 1) |-> FALSE],
            !.v_regi = [r \in 0..(NUM_REGS - 1) |-> 0],
            !.i_regi = 0,
            !.stkp = 0,
            !.stack = [s \in 0..(STACK_SIZE - 1) |-> 0],
            !.keys = [k \in 0..(NUM_KEYS - 1) |-> FALSE],
            !.delay_t = 0,
            !.sound_t = 0 ]

\* load as it would be with the range check off by one (end >= RAM_SIZE).
load_rejecting_full_image(m, data) ==
    LET start == START_ADDRESS
        end == START_ADDRESS + Len(data)
    IN  IF end >= RAM_SIZE
        THEN [m EXCEPT !.fault = "index"]
        ELSE [m EXCEPT !.ram = [a \in 0..(RAM_SIZE - 1) |->
                                   IF a >= start /\ a < end
                                   THEN data[a - start + 1] ELSE m.ram[a]]]

\* Chip8::load: ram[start..end] panics when end > RAM_SIZE, before any byte
\* is copied; otherwise data is copied to START_ADDRESS onwards.
load(m, data) ==
    LET start == START_ADDRESS
        end == START_ADDRESS + Len(data)
    IN  IF end > RAM_SIZE
        THEN [m EXCEPT !.fault = "index"]
        ELSE [m EXCEPT !.ram = [a \in 0..(RAM_SIZE - 1) |->
                                   IF a >= start /\ a < end
                                   THEN data[a - start + 1] ELSE m.ram[a]]]

\* keypress as it would be if a release were stored as a press.
keypress_always_pressed(m, idx, pressed) ==
    IF idx >= NUM_KEYS
    THEN [m EXCEPT !.fault = "index"]
    ELSE [m EXCEPT !.keys[idx] = TRUE]

\* Chip8::keypress: keys[idx] panics when idx >= NUM_KEYS.
keypress(m, idx, pressed) ==
    IF idx >= NUM_KEYS
    THEN [m EXCEPT !.fault = "index"]
    ELSE [m EXCEPT !.keys[idx] = pressed]

\* clock_timers as it would be without the guards: a wrapping decrement.
clock_timers_unguarded(m) ==
    [m EXCEPT !.delay_t = (m.delay_t + 255) % 256,
              !.sound_t = (m.sound_t + 255) % 256]

\* Chip8::clock_timers
clock_timers(m) ==
    LET d == IF m.delay_t > 0 THEN m.delay_t - 1 ELSE m.delay_t
        s == IF m.sound_t > 0 THEN m.sound_t - 1 ELSE m.sound_t
    IN  [m EXCEPT !.delay_t = d, !.sound_t = s]

\* ------------------------------------------------------------------------
\* The stack
\* ------------------------------------------------------------------------
\* push as it would be with an unchecked store: a full stack drops the value
\* and the pointer still moves.
push_unchecked(m, data) ==
    [m EXCEPT !.stack = [i \in 0..(STACK_SIZE - 1) |->
                            IF i = m.stkp THEN data ELSE m.stack[i]],
              !.stkp = m.stkp + 1]

\* Chip8::push: stack[stkp] panics when stkp >= STACK_SIZE, before stkp moves.
push(m, data) ==
    IF m.stkp >= STACK_SIZE
    THEN [m EXCEPT !.fault = "index"]
    ELSE [m EXCEPT !.stack[m.stkp] = data, !.stkp = m.stkp + 1]

\* pop as it would be if the slot were read before the pointer moved.
pop_reading_before_decrement(m, checked) ==
    IF m.stkp = 0
    THEN [m |-> [m EXCEPT !.fault = "overflow"], value |-> 0]
    ELSE [m |-> [m EXCEPT !.stkp = m.stkp - 1],
          value |-> IF m.stkp < STACK_SIZE THEN m.stack[m.stkp] ELSE 0]

\* Chip8::pop: the machine after the pop and the value popped.  With
\* stkp = 0 the subtraction panics in a build with overflow checks; in a
\* build without them stkp wraps to 65535 and the index panics.
pop(m, checked) ==
    IF m.stkp = 0
    THEN IF checked
         THEN [m |-> [m EXCEPT !.fault = "overflow"], value |-> 0]
         ELSE [m |-> [m EXCEPT !.stkp = 65535, !.fault = "index"], value |-> 0]
    ELSE IF m.stkp - 1 >= STACK_SIZE
         THEN [m |-> [m EXCEPT !.stkp = m.stkp - 1, !.fault = "index"], value |-> 0]
         ELSE [m |-> [m EXCEPT !.stkp = m.stkp - 1], value |-> m.stack[m.stkp - 1]]

\* ------------------------------------------------------------------------
\* Fetch
\* ------------------------------------------------------------------------
\* fetch as it would be if the last instruction slot, 0xFFE, were refused.
fetch_refusing_last_slot(m) ==
    IF m.pc + 2 >= RAM_SIZE
    THEN [m |-> [m EXCEPT !.fault = "index"], opcode |-> 0]
    ELSE [m |-> [m EXCEPT !.pc = m.pc + 2],
          opcode |-> BitOr(m.ram[m.pc] * 256, m.ram[m.pc + 1])]

\* fetch as it would be with the low byte of the instruction read first.
fetch_little_endian(m) ==
    IF m.pc >= RAM_SIZE \/ m.pc + 1 >= RAM_SIZE
    THEN [m |-> [m EXCEPT !.fault = "index"], opcode |-> 0]
    ELSE [m |-> [m EXCEPT !.pc = m.pc + 2],
          opcode |-> BitOr(m.ram[m.pc + 1] * 256, m.ram[m.pc])]

\* Chip8::fetch: both reads are bounds-checked, and pc moves only after them.
fetch(m) ==
    IF m.pc >= RAM_SIZE \/ m.pc + 1 >= RAM_SIZE
    THEN [m |-> [m EXCEPT !.fault = "index"], opcode |-> 0]
    ELSE [m |-> [m EXCEPT !.pc = m.pc + 2],
          opcode |-> BitOr(m.ram[m.pc] * 256, m.ram[m.pc + 1])]

\* The opcode the next clock call fetches (0 when the fetch faults).
NextOpcode == fetch(Self).opcode

\* The four nibbles of an opcode, as execute splits it.
D1(opcode) == BitAnd(opcode, 61440) \div 4096
D2(opcode) == BitAnd(opcode, 3840) \div 256
D3(opcode) == BitAnd(opcode, 240) \div 16
D4(opcode) == BitAnd(opcode, 15)
NNN(opcode) == BitAnd(opcode, 4095)
NN(opcode) == BitAnd(opcode, 255)

\* ------------------------------------------------------------------------
\* The instructions with loops
\* ------------------------------------------------------------------------
\* DXYN, one row, as it would be if a set bit lit its cell instead of
\* toggling it.
RECURSIVE DrawColsLighting(_, _, _, _, _)
DrawColsLighting(d, pixels, x, yrow, x_line) ==
    IF x_line = 8 THEN d
    ELSE IF BitAnd(pixels, 128 \div (2 ^ x_line)) # 0
         THEN LET xx == (x + x_line) % SCREEN_WIDTH
                  idx == xx + SCREEN_WIDTH * yrow
              IN  DrawColsLighting([display |-> [d.display EXCEPT ![idx] = TRUE],
                                    flipped |-> d.flipped \/ d.display[idx]],
                                   pixels, x, yrow, x_line + 1)
         ELSE DrawColsLighting(d, pixels, x, yrow, x_line + 1)

\* DXYN, one row: the inner loop over x_line in 0..8, from column x_line on.
\* d is [display, flipped].
RECURSIVE DrawCols(_, _, _, _, _)
DrawCols(d, pixels, x, yrow, x_line) ==
    IF x_line = 8 THEN d
    ELSE IF BitAnd(pixels, 128 \div (2 ^ x_line)) # 0
         THEN LET xx == (x + x_line) % SCREEN_WIDTH
                  idx == xx + SCREEN_WIDTH * yrow
              IN  DrawCols([display |-> [d.display EXCEPT ![idx] = ~d.display[idx]],
                            flipped |-> d.flipped \/ d.display[idx]],
                           pixels, x, yrow, x_line + 1)
         ELSE DrawCols(d, pixels, x, yrow, x_line + 1)

\* DXYN, the rows, as they would be if a sprite were clipped at the bottom
\* edge of the screen instead of wrapping to the top.
RECURSIVE DrawRowsClipped(_, _, _, _, _, _)
DrawRowsClipped(m, d, x, y, num_rows, y_line) ==
    IF y_line = num_rows
    THEN [display |-> d.display, flipped |-> d.flipped, fault |-> "none"]
    ELSE LET addr == m.i_regi + y_line
         IN  IF addr >= RAM_SIZE
             THEN [display |-> d.display, flipped |-> d.flipped, fault |-> "index"]
             ELSE DrawRowsClipped(m,
                                  IF y + y_line >= SCREEN_HEIGHT THEN d
                                  ELSE DrawCols(d, m.ram[addr], x, y + y_line, 0),
                                  x, y, num_rows, y_line + 1)

\* DXYN, the outer loop over y_line in 0..num_rows, from row y_line on.
\* ram[addr] panics when addr >= RAM_SIZE; the rows before it are drawn.
RECURSIVE DrawRows(_, _, _, _, _, _)
DrawRows(m, d, x, y, num_rows, y_line) ==
    IF y_line = num_rows
    THEN [display |-> d.display, flipped |-> d.flipped, fault |-> "none"]
    ELSE LET addr == m.i_regi + y_line
         IN  IF addr >= RAM_SIZE
             THEN [display |-> d.display, flipped |-> d.flipped, fault |-> "index"]
             ELSE DrawRows(m,
                           DrawCols(d, m.ram[addr], x, (y + y_line) % SCREEN_HEIGHT, 0),
                           x, y, num_rows, y_line + 1)

\* DXYN as it would be if the sprite were read from the start of memory,
\* whatever I holds.
draw_ignoring_index(m, opcode) ==
    LET x == m.v_regi[D2(opcode)]
        y == m.v_regi[D3(opcode)]
        r == DrawRows([m EXCEPT !.i_regi = 0],
                      [display |-> m.display, flipped |-> FALSE], x, y, D4(opcode), 0)
    IN  [m EXCEPT !.display = r.display,
                  !.v_regi[15] = IF r.flipped THEN 1 ELSE 0]

\* DXYN
draw(m, opcode) ==
    LET x == m.v_regi[D2(opcode)]
        y == m.v_regi[D3(opcode)]
        num_rows == D4(opcode)
        r == DrawRows(m, [display |-> m.display, flipped |-> FALSE], x, y, num_rows, 0)
    IN  IF r.fault # "none"
        THEN [m EXCEPT !.display = r.display, !.fault = r.fault]
        ELSE [m EXCEPT !.display = r.display,
                       !.v_regi[15] = IF r.flipped THEN 1 ELSE 0]

\* FX0A: the index of the first pressed key from i on, NUM_KEYS if none.
RECURSIVE FirstPressed(_, _)
FirstPressed(ks, i) ==
    IF i = NUM_KEYS THEN NUM_KEYS
    ELSE IF ks[i] THEN i
    ELSE FirstPressed(ks, i + 1)

\* FX0A as it would be without the rewind of pc.
wait_key_without_rewind(m, opcode) ==
    LET x == D2(opcode)
        i == FirstPressed(m.keys, 0)
    IN  IF i < NUM_KEYS
        THEN [m EXCEPT !.v_regi[x] = i]
        ELSE m

\* FX0A
wait_key(m, opcode) ==
    LET x == D2(opcode)
        i == FirstPressed(m.keys, 0)
    IN  IF i < NUM_KEYS
        THEN [m EXCEPT !.v_regi[x] = i]
        ELSE [m EXCEPT !.pc = m.pc - 2]

\* f32 arithmetic, as FX33 uses it.  A finite positive f32 is sig * 2^(exp - 23)
\* with a 24-bit significand sig; zero has sig = 0.
\* The binary exponent of n / d for integers n >= 1 and d >= 1 with
\* d / 256 <= n < 512 * d.
F32Exp(n, d) ==
    CHOOSE e \in -8..8 : d * 2 ^ (e + 8) <= n * 256 /\ n * 256 < d * 2 ^ (e + 9)

\* n as f32 / d as f32 for integers 0 <= n <= 255 and d in {10, 100}: both
\* operands are exact in f32, and the quotient is rounded to the nearest
\* significand, ties to even.
F32Div(n, d) ==
    IF n = 0 THEN [sig |-> 0, exp |-> 0]
    ELSE LET e == F32Exp(n, d)
             scaled == n * 2 ^ (23 - e)
             q == scaled \div d
             r == scaled % d
             up == 2 * r > d \/ (2 * r = d /\ q % 2 = 1)
         IN  [sig |-> IF up THEN q + 1 ELSE q, exp |-> e]

\* f % (d as f32), exact as fmod is, for f below 2^24 and exp >= -4.
F32Rem(f, d) == [sig |-> f.sig % (d * 2 ^ (23 - f.exp)), exp |-> f.exp]

\* f.floor() as u8, for f below 256.
F32FloorU8(f) == f.sig \div 2 ^ (23 - f.exp)

\* FX33 as it would be with the digits stored lowest first.
bcd_ones_first(m, opcode) ==
    LET vx == m.v_regi[D2(opcode)]
        i == m.i_regi
    IN  IF i + 2 >= RAM_SIZE THEN [m EXCEPT !.fault = "index"]
        ELSE [m EXCEPT !.ram[i] = vx % 10, !.ram[i + 1] = (vx \div 10) % 10,
                       !.ram[i + 2] = vx \div 100]

\* FX33: the digits are computed in f32 and stored one by one, each store
\* bounds-checked.  vx % 10.0 is exact, vx being an integer.
bcd(m, opcode) ==
    LET vx == m.v_regi[D2(opcode)]
        hundreds == F32FloorU8(F32Div(vx, 100))
        tens == F32FloorU8(F32Rem(F32Div(vx, 10), 10))
        ones == vx % 10
        i == m.i_regi
    IN  IF i >= RAM_SIZE THEN [m EXCEPT !.fault = "index"]
        ELSE IF i + 1 >= RAM_SIZE
             THEN [m EXCEPT !.ram[i] = hundreds, !.fault = "index"]
        ELSE IF i + 2 >= RAM_SIZE
             THEN [m EXCEPT !.ram[i] = hundreds, !.ram[i + 1] = tens, !.fault = "index"]
        ELSE [m EXCEPT !.ram[i] = hundreds, !.ram[i + 1] = tens, !.ram[i + 2] = ones]

\* FX55 as it would be with the base address I left out of the index.
RECURSIVE StoreRegsWithoutBase(_, _, _)
StoreRegsWithoutBase(m, x, idx) ==
    IF idx > x THEN m
    ELSE IF m.i_regi + idx >= RAM_SIZE THEN [m EXCEPT !.fault = "index"]
    ELSE StoreRegsWithoutBase([m EXCEPT !.ram[idx] = m.v_regi[idx]], x, idx + 1)

\* FX55: the loop over idx in 0..=x, from idx on.
RECURSIVE StoreRegs(_, _, _)
StoreRegs(m, x, idx) ==
    IF idx > x THEN m
    ELSE IF m.i_regi + idx >= RAM_SIZE THEN [m EXCEPT !.fault = "index"]
    ELSE StoreRegs([m EXCEPT !.ram[m.i_regi + idx] = m.v_regi[idx]], x, idx + 1)

\* FX65 as it would be with the exclusive range 0..x.
RECURSIVE LoadRegsExclusive(_, _, _)
LoadRegsExclusive(m, x, idx) ==
    IF idx >= x THEN m
    ELSE IF m.i_regi + idx >= RAM_SIZE THEN [m EXCEPT !.fault = "index"]
    ELSE LoadRegsExclusive([m EXCEPT !.v_regi[idx] = m.ram[m.i_regi + idx]], x, idx + 1)

\* FX65: the loop over idx in 0..=x, from idx on.
RECURSIVE LoadRegs(_, _, _)
LoadRegs(m, x, idx) ==
    IF idx > x THEN m
    ELSE IF m.i_regi + idx >= RAM_SIZE THEN [m EXCEPT !.fault = "index"]
    ELSE LoadRegs([m EXCEPT !.v_regi[idx] = m.ram[m.i_regi + idx]], x, idx + 1)

\* EX9E (want = TRUE) and EXA1 (want = FALSE): keys[vx] panics when
\* vx >= NUM_KEYS.
skip_key(m, opcode, want) ==
    LET vx == m.v_regi[D2(opcode)]
    IN  IF vx >= NUM_KEYS THEN [m EXCEPT !.fault = "index"]
        ELSE IF m.keys[vx] = want THEN [m EXCEPT !.pc = m.pc + 2]
        ELSE m

\* ------------------------------------------------------------------------
\* The instructions that write VF, and the screen clear
\* ------------------------------------------------------------------------
\* 00E0 as it would be if only the first row of the screen were cleared.
cls_first_row(m) ==
    [m EXCEPT !.display =
        [c \in 0..(SCREEN_WIDTH * SCREEN_HEIGHT - 1) |->
            IF c < SCREEN_WIDTH THEN FALSE ELSE m.display[c]]]

\* 00E0: the display becomes a fresh array of false.
cls(m) ==
    [m EXCEPT !.display =
        [c \in 0..(SCREEN_WIDTH * SCREEN_HEIGHT - 1) |-> FALSE]]

\* 8XY4 as it would be with the carry taken from 255 on.
add_vy_carry_from_255(m, x, y) ==
    LET vx == m.v_regi[x]
        vy == m.v_regi[y]
    IN  [m EXCEPT !.v_regi[x] = (vx + vy) % 256,
                  !.v_regi[15] = IF vx + vy >= 255 THEN 1 ELSE 0]

\* 8XY4: overflowing_add, then VX is written and VF after it.
add_vy(m, x, y) ==
    LET vx == m.v_regi[x]
        vy == m.v_regi[y]
        new_vx == (vx + vy) % 256
        carry == vx + vy > 255
        new_vf == IF carry THEN 1 ELSE 0
    IN  [m EXCEPT !.v_regi[x] = new_vx, !.v_regi[15] = new_vf]

\* 8XY5 as it would be if equal operands counted as a borrow.
sub_vy_borrow_on_equal(m, x, y) ==
    LET vx == m.v_regi[x]
        vy == m.v_regi[y]
    IN  [m EXCEPT !.v_regi[x] = (vx + 256 - vy) % 256,
                  !.v_regi[15] = IF vx <= vy THEN 0 ELSE 1]

\* 8XY5: overflowing_sub of VY from VX, then VX is written and VF after it.
sub_vy(m, x, y) ==
    LET vx == m.v_regi[x]
        vy == m.v_regi[y]
        new_vx == (vx + 256 - vy) % 256
        borrow == vx < vy
        new_vf == IF borrow THEN 0 ELSE 1
    IN  [m EXCEPT !.v_regi[x] = new_vx, !.v_regi[15] = new_vf]

\* 8XY7: overflowing_sub of VX from VY, then VX is written and VF after it.
subn_vy(m, x, y) ==
    LET vx == m.v_regi[x]
        vy == m.v_regi[y]
        new_vx == (vy + 256 - vx) % 256
        borrow == vy < vx
        new_vf == IF borrow THEN 0 ELSE 1
    IN  [m EXCEPT !.v_regi[x] = new_vx, !.v_regi[15] = new_vf]

\* ------------------------------------------------------------------------
\* Decode and execute
\* ------------------------------------------------------------------------
\* The arm of the match in execute that takes the nibbles (d1, d2, d3, d4):
\* the first pattern, in source order, that they match.
Arm(d1, d2, d3, d4) ==
    CASE d1 = 0 /\ d2 = 0 /\ d3 = 0 /\ d4 = 0 -> "NOP"
      [] d1 = 0 /\ d2 = 0 /\ d3 = 14 /\ d4 = 0 -> "CLS"
      [] d1 = 0 /\ d2 = 0 /\ d3 = 14 /\ d4 = 14 -> "RET"
      [] d1 = 1 -> "JMP"
      [] d1 = 2 -> "CALL"
      [] d1 = 3 -> "SE_NN"
      [] d1 = 4 -> "SNE_NN"
      [] d1 = 5 -> "SE_VY"
      [] d1 = 6 -> "LD_NN"
      [] d1 = 7 -> "ADD_NN"
      [] d1 = 8 /\ d4 = 0 -> "LD_VY"
      [] d1 = 8 /\ d4 = 1 -> "OR"
      [] d1 = 8 /\ d4 = 2 -> "AND"
      [] d1 = 8 /\ d4 = 3 -> "XOR"
      [] d1 = 8 /\ d4 = 4 -> "ADD_VY"
      [] d1 = 8 /\ d4 = 5 -> "SUB_VY"
      [] d1 = 8 /\ d4 = 6 -> "SHR"
      [] d1 = 8 /\ d4 = 7 -> "SUBN_VY"
      [] d1 = 8 /\ d4 = 14 -> "SHL"
      [] d1 = 9 /\ d4 = 0 -> "SNE_VY"
      [] d1 = 10 -> "LD_I"
      [] d1 = 11 -> "JMP_V0"
      [] d1 = 12 -> "RND"
      [] d1 = 13 -> "DRAW"
      [] d1 = 14 /\ d3 = 9 /\ d4 = 14 -> "SKP"
      [] d1 = 14 /\ d3 = 10 /\ d4 = 1 -> "SKNP"
      [] d1 = 15 /\ d3 = 0 /\ d4 = 7 -> "LD_VX_DT"
      [] d1 = 15 /\ d3 = 0 /\ d4 = 10 -> "WAIT_KEY"
      [] d1 = 15 /\ d3 = 1 /\ d4 = 5 -> "LD_DT"
      [] d1 = 15 /\ d3 = 1 /\ d4 = 8 -> "LD_ST"
      [] d1 = 15 /\ d3 = 1 /\ d4 = 14 -> "ADD_I"
      [] d1 = 15 /\ d3 = 2 /\ d4 = 9 -> "FONT"
      [] d1 = 15 /\ d3 = 3 /\ d4 = 3 -> "BCD"
      [] d1 = 15 /\ d3 = 5 /\ d4 = 5 -> "STORE"
      [] d1 = 15 /\ d3 = 6 /\ d4 = 5 -> "LOAD"
      [] OTHER -> "unimplemented"

Decode(opcode) == Arm(D1(opcode), D2(opcode), D3(opcode), D4(opcode))

\* Chip8::execute, on the machine m that fetch left.  rng is the byte that
\* thread_rng yields (read by CXNN only); checked tells whether the build
\* panics on arithmetic overflow (it matters to 00EE only).
execute(m, opcode, rng, checked) ==
    LET arm == Decode(opcode)
        x == D2(opcode)
        y == D3(opcode)
        nn == NN(opcode)
        nnn == NNN(opcode)
        vx == m.v_regi[x]
        vy == m.v_regi[y]
    IN  CASE arm = "NOP" -> m
          [] arm = "CLS" -> cls(m)
          [] arm = "RET" ->
                LET p == pop(m, checked)
                IN  IF p.m.fault # "none" THEN p.m
                    ELSE [p.m EXCEPT !.pc = p.value]
          [] arm = "JMP" -> [m EXCEPT !.pc = nnn]
          [] arm = "CALL" ->
                LET p == push(m, m.pc)
                IN  IF p.fault # "none" THEN p
                    ELSE [p EXCEPT !.pc = nnn]
          [] arm = "SE_NN" -> IF vx = nn THEN [m EXCEPT !.pc = m.pc + 2] ELSE m
          [] arm = "SNE_NN" -> IF vx # nn THEN [m EXCEPT !.pc = m.pc + 2] ELSE m
          [] arm = "SE_VY" -> IF vx = vy THEN [m EXCEPT !.pc = m.pc + 2] ELSE m
          [] arm = "LD_NN" -> [m EXCEPT !.v_regi[x] = nn]
          [] arm = "ADD_NN" -> [m EXCEPT !.v_regi[x] = (vx + nn) % 256]
          [] arm = "LD_VY" -> [m EXCEPT !.v_regi[x] = vy]
          [] arm = "OR" -> [m EXCEPT !.v_regi[x] = BitOr(vx, vy)]
          [] arm = "AND" -> [m EXCEPT !.v_regi[x] = BitAnd(vx, vy)]
          [] arm = "XOR" -> [m EXCEPT !.v_regi[x] = BitXor(vx, vy)]
          [] arm = "ADD_VY" -> add_vy(m, x, y)
          [] arm = "SUB_VY" -> sub_vy(m, x, y)
          [] arm = "SHR" ->
                LET lsb == BitAnd(vx, 1)
                IN  [m EXCEPT !.v_regi[x] = vx \div 2, !.v_regi[15] = lsb]
          [] arm = "SUBN_VY" -> subn_vy(m, x, y)
          [] arm = "SHL" ->
                LET msb == BitAnd(vx \div 128, 1)
                IN  [m EXCEPT !.v_regi[x] = (vx * 2) % 256, !.v_regi[15] = msb]
          [] arm = "SNE_VY" -> IF vx # vy THEN [m EXCEPT !.pc = m.pc + 2] ELSE m
          [] arm = "LD_I" -> [m EXCEPT !.i_regi = nnn]
          [] arm = "JMP_V0" -> [m EXCEPT !.pc = m.v_regi[0] + nnn]
          [] arm = "RND" -> [m EXCEPT !.v_regi[x] = BitAnd(rng, nn)]
          [] arm = "DRAW" -> draw(m, opcode)
          [] arm = "SKP" -> skip_key(m, opcode, TRUE)
          [] arm = "SKNP" -> skip_key(m, opcode, FALSE)
          [] arm = "LD_VX_DT" -> [m EXCEPT !.v_regi[x] = m.delay_t]
          [] arm = "WAIT_KEY" -> wait_key(m, opcode)
          [] arm = "LD_DT" -> [m EXCEPT !.delay_t = vx]
          [] arm = "LD_ST" -> [m EXCEPT !.sound_t = vx]
          [] arm = "ADD_I" -> [m EXCEPT !.i_regi = (m.i_regi + vx) % 65536]
          [] arm = "FONT" -> [m EXCEPT !.i_regi = vx * 5]
          [] arm = "BCD" -> bcd(m, opcode)
          [] arm = "STORE" -> StoreRegs(m, x, 0)
          [] arm = "LOAD" -> LoadRegs(m, x, 0)
          [] OTHER -> [m EXCEPT !.fault = "unimplemented"]

\* clock as it would be if each step also counted the timers down.
clock_with_timers(m, rng, checked) ==
    LET f == fetch(m)
    IN  IF f.m.fault # "none" THEN f.m
        ELSE clock_timers(execute(f.m, f.opcode, rng, checked))

\* Chip8::clock: fetch, then execute.
clock(m, rng, checked) ==
    LET f == fetch(m)
    IN  IF f.m.fault # "none" THEN f.m
        ELSE execute(f.m, f.opcode, rng, checked)

\* ------------------------------------------------------------------------
\* ROM images the host loads (big-endian 16-bit instructions)
\* ------------------------------------------------------------------------
\* A ROM image from a sequence of 16-bit instruction words.
Words(ws) ==
    [k \in 1..(2 * Len(ws)) |->
        IF k % 2 = 1 THEN ws[(k + 1) \div 2] \div 256 ELSE ws[k \div 2] % 256]

\* V0 = 3; DT = V0; ST = V0; call 0x20C; loop: V1 = DT; jump loop;
\* 0x20C: I = font glyph V0; draw 5 rows at (V0, V0); return
RomTimer ==
    Words(<< 24579, 61461, 61464, 8716, 61703, 4616, 61481, 53253, 238 >>)

\* wait: V0 = key; skip if key[V0] pressed; jump wait;
\* skip if key[V0] not pressed; jump wait; jump 0x202
RomKey == Words(<< 61450, 57502, 4608, 57505, 4608, 4610 >>)

Roms == { RomTimer }

RomsKey == { RomKey }

\* call 0x200, for ever: the 17th call finds the stack full
RomRecurse == Words(<< 8704 >>)

\* call 0x204; return; 0x204: return.  The second return finds the stack
\* empty.
RomRet == Words(<< 8708, 238, 238 >>)

\* jump 0xFFF
RomJump == Words(<< 8191 >>)

\* V0 = 0xFF; jump V0 + 0xFFF
RomJumpV0 == Words(<< 24831, 49151 >>)

\* An image that fills memory to its last byte: jump 0xFFE; zeros;
\* 0xFFE: skip if V0 == 0
RomFull ==
    [k \in 1..(RAM_SIZE - START_ADDRESS) |->
        CASE k = 1 -> 31
          [] k = 2 -> 254
          [] k = RAM_SIZE - START_ADDRESS - 1 -> 48
          [] OTHER -> 0]

\* An image one byte longer than memory has room for.
RomBig == [k \in 1..(RAM_SIZE - START_ADDRESS + 1) |-> 255]

RomsCtl == { RomRecurse, RomRet, RomJump, RomJumpV0, RomFull, RomBig }

\* draw 5 rows at (V0, V0) from I = 0; V0 = 0xAA; I = 80; store V0; BCD of
\* V0; I = 0x300; store V0; BCD of V0; load V0..V1; clear; I = 78; BCD of
\* V0; I = 0; store V0..V1; jump to self
RomFont ==
    Words(<< 53253, 24746, 41040, 61525, 61491, 41728, 61525, 61491,
             61797, 224, 41038, 61491, 40960, 61781, 4636 >>)

\* One instruction each: opcodes outside the instruction table.
\* 5011, 522F, 9001, 8008, 800F, 0123, 00E1, E000,
\* E09F, F000, F155
UnlistedOpcodes == { 20497, 21039, 36865, 32776, 32783, 291, 225, 57344, 57503,
                     61440, 61781 }

RomsMem == { RomFont }

RomsOps == { Words(<< op >>) : op \in UnlistedOpcodes }

\* The arithmetic programs: CXNN with mask 0x83 and 7XNN with 0xFE leave
\* one of 254, 255, 0, 1, 126, 127, 128, 129 in VX, then the same for VY,
\* then the instruction 8XYn under test runs.
RomAlu(x, y, n) ==
    Words(<< 49152 + x * 256 + 131, 28672 + x * 256 + 254,
             49152 + y * 256 + 131, 28672 + y * 256 + 254,
             32768 + x * 256 + y * 16 + n >>)

\* The register pairs (X, Y) the arithmetic programs use: distinct
\* registers, VF as either operand, and one register as both.
AluPairs == { <<0, 1>>, <<2, 15>>, <<15, 2>>, <<3, 3>>, <<15, 15>> }

RomsAdd == { RomAlu(p[1], p[2], 4) : p \in AluPairs }

\* The subtraction programs, 8XY5 and 8XY7: distinct registers, VF as the
\* destination, and one register as both operands.
RomsSub == { RomAlu(p[1], p[2], n) : p \in { <<0, 1>>, <<15, 2>>, <<3, 3>> }, n \in {5, 7} }

\* The drawing program: D015 (glyph "0" at (0, 0)), C023, 703D (V0 in
\* 61..64 or 93..96), C113, 711D (V1 in 29..32 or 45..48), A04B (glyph "F"),
\* D015 twice, D010, DF15 twice (VF as the column register).
RomDraw == Words(<< 53269, 49187, 28733, 49427, 28957, 41035, 53269, 53269,
                    53264, 57109, 57109 >>)

RomsDraw == { RomDraw }

\* The block-transfer program: C003, C30C, 6FAB (V0 in 0..3, V3 in
\* {0, 4, 8, 12}, VF = 0xAB), A300, F355, F365 (four registers out and back),
\* A000, F065, F365 (one, then four registers from the font), A310, FF55,
\* FF65 (all sixteen out and back), A001, FF65 (all sixteen from the font),
\* F055 (one register into the font).
RomBlock == Words(<< 49155, 49932, 28587, 41728, 62293, 62309, 40960, 61541,
                     62309, 41744, 65365, 65381, 40961, 65381, 61525 >>)

RomsBlock == { RomBlock }

\* The scenario programs.  A200, 6000, 6100, D015: a sprite of height 5
\* drawn at (0, 0) with I = 0x200.
RomDrawScenario == << 162, 0, 96, 0, 97, 0, 208, 21 >>

\* A000, 6000, 6100, D015: the same with I = 0, where the font table starts.
RomGlyphScenario == << 160, 0, 96, 0, 97, 0, 208, 21 >>

\* 6005, 6103, 8014: V0 = 5, V1 = 3, V0 += V1.
RomArithScenario == << 96, 5, 97, 3, 128, 20 >>

RomsScenario == { RomDrawScenario, RomGlyphScenario, RomArithScenario }

\* The call programs.  Sixteen nested subroutines: the instruction at
\* 0x200 + 4k, k in 0..15, calls 0x204 + 4k, and each subroutine returns
\* right after its own call returns (0x202 holds a jump to itself).
RomNest == Words(<< 8708, 4610, 8712, 238, 8716, 238, 8720, 238, 8724,
                   238, 8728, 238, 8732, 238, 8736, 238, 8740, 238,
                   8744, 238, 8748, 238, 8752, 238, 8756, 238, 8760,
                   238, 8764, 238, 8768, 238, 238 >>)

\* Two calls of one subroutine that itself calls another: 2206, 2206, 1204
\* (jump to itself), then at 0x206: 220A, 00EE, and at 0x20A: 00EE.
RomPairs == Words(<< 8710, 8710, 4612, 8714, 238, 238 >>)

RomsCall == { RomNest, RomPairs }

\* The decimal programs: CXFF leaves any byte in VX, then FX33 stores its
\* digits: C0FF, F033 (at I = 0, over the font); C1FF, A300, F133; and
\* CFFF, AFFD, FF33 (VF as the source, the last three bytes of memory).
RomsBcd == { Words(<< 49407, 61491 >>),
             Words(<< 49663, 41728, 61747 >>),
             Words(<< 53247, 45053, 65331 >>) }

\* ------------------------------------------------------------------------
\* The host's calls
\* ------------------------------------------------------------------------
Init ==
    /\ pc = init.pc
    /\ ram = init.ram
    /\ v_regi = init.v_regi
    /\ i_regi = init.i_regi
    /\ display = init.display
    /\ stack = init.stack
    /\ stkp = init.stkp
    /\ delay_t = init.delay_t
    /\ sound_t = init.sound_t
    /\ keys = init.keys
    /\ fault = init.fault
    /\ last = [op |-> "init", a |-> 0, b |-> 0, c |-> 0]
    /\ loads = 0
    /\ nops = 0
    /\ ticks = 0
    /\ written = 0
    /\ calls = << >>

\* The number of fields of the struct m that differ from their value at
\* construction.
Dirty(m) ==
    Cardinality({ f \in { "pc", "ram", "v_regi", "i_regi", "display", "stack",
                          "stkp", "delay_t", "sound_t", "keys" } : m[f] # init[f] })

\* load(data), data one of the images of roms
Load(roms) ==
    /\ fault = "none"
    /\ loads < MaxLoads
    /\ \E data \in roms :
          /\ Becomes(load(Self, data))
          /\ last' = [op |-> "load", a |-> data, b |-> 0, c |-> 0]
    /\ loads' = loads + 1
    /\ UNCHANGED << nops, ticks, written, calls >>

\* keypress(idx, pressed)
Keypress ==
    /\ fault = "none"
    /\ \E idx \in (0..MaxKey) \cup {NUM_KEYS}, pressed \in BOOLEAN :
          /\ Becomes(keypress(Self, idx, pressed))
          /\ last' = [op |-> "keypress", a |-> idx, b |-> IF pressed THEN 1 ELSE 0,
                      c |-> 0]
    /\ UNCHANGED << loads, nops, ticks, written, calls >>

\* clock_timers()
ClockTimers ==
    /\ fault = "none"
    /\ Becomes(clock_timers(Self))
    /\ last' = [op |-> "tick", a |-> 0, b |-> 0, c |-> 0]
    /\ ticks' = IF ticks < written THEN ticks + 1 ELSE ticks
    /\ UNCHANGED << loads, nops, written, calls >>

\* reset()
Reset ==
    /\ fault = "none"
    /\ Becomes(reset(Self))
    /\ last' = [op |-> "reset", a |-> pc, b |-> Dirty(Self), c |-> 0]
    /\ loads' = 0
    /\ nops' = 0
    /\ ticks' = 0
    /\ written' = 0
    /\ calls' = << >>

\* The bytes thread_rng can yield to the instruction about to execute.
RngBytes == IF Decode(NextOpcode) = "RND" THEN 0..255 ELSE {0}

\* The builds that differ on the instruction about to execute: with and
\* without overflow checks.
Builds == IF Decode(NextOpcode) = "RET" /\ stkp = 0 THEN BOOLEAN ELSE {TRUE}

\* clock()
Clock ==
    /\ fault = "none"
    /\ nops < MaxNops
    /\ \E rng \in RngBytes, checked \in Builds :
          \E m2 \in {clock(Self, rng, checked)} : Becomes(m2)
    /\ LET f == fetch(Self)
           fetched == f.m.fault = "none"
           arm == IF fetched THEN Decode(f.opcode) ELSE "fault"
       IN  /\ last' = [op |-> "clock", a |-> IF fetched THEN f.opcode ELSE -1, b |-> pc,
                       c |-> IF arm = "DRAW"
                             THEN [display |-> display, i |-> i_regi,
                                   x |-> v_regi[D2(f.opcode)],
                                   y |-> v_regi[D3(f.opcode)]]
                             ELSE 0]
           /\ nops' = IF arm = "NOP" THEN nops + 1 ELSE nops
           /\ ticks' = IF arm = "LD_DT" THEN 0 ELSE ticks
           /\ written' = IF arm = "LD_DT" THEN v_regi[D2(f.opcode)] ELSE written
           /\ calls' = IF arm = "CALL" /\ fault' = "none"
                        THEN Append(calls, pc)
                        ELSE IF arm = "RET" /\ fault' = "none" /\ calls # << >>
                        THEN SubSeq(calls, 1, Len(calls) - 1)
                        ELSE calls
    /\ UNCHANGED loads

\* The host with the timer program.
Next == Load(Roms) \/ Keypress \/ ClockTimers \/ Reset \/ Clock

Spec == Init /\ [][Next]_vars

\* The host with the keypad program.
NextKey == Load(RomsKey) \/ Keypress \/ ClockTimers \/ Reset \/ Clock

SpecKey == Init /\ [][NextKey]_vars

\* The host with the control-flow programs and the boundary images.
NextCtl == Load(RomsCtl) \/ Keypress \/ ClockTimers \/ Reset \/ Clock

SpecCtl == Init /\ [][NextCtl]_vars

\* The host with the memory program.
NextMem == Load(RomsMem) \/ Keypress \/ ClockTimers \/ Reset \/ Clock

SpecMem == Init /\ [][NextMem]_vars

\* The host with the one-instruction programs.
NextOps == Load(RomsOps) \/ Keypress \/ ClockTimers \/ Reset \/ Clock

SpecOps == Init /\ [][NextOps]_vars

\* The host with the addition programs.
NextAdd == Load(RomsAdd) \/ Reset \/ Clock

SpecAdd == Init /\ [][NextAdd]_vars

\* The host with the subtraction programs.
NextSub == Load(RomsSub) \/ Reset \/ Clock

SpecSub == Init /\ [][NextSub]_vars

\* The host with the drawing program.
NextDraw == Load(RomsDraw) \/ Reset \/ Clock

SpecDraw == Init /\ [][NextDraw]_vars

\* The host with the decimal programs.
NextBcd == Load(RomsBcd) \/ Reset \/ Clock

SpecBcd == Init /\ [][NextBcd]_vars

\* The host with the block-transfer program.
NextBlock == Load(RomsBlock) \/ Reset \/ Clock

SpecBlock == Init /\ [][NextBlock]_vars

\* The host with the scenario programs.
NextScenario == Load(RomsScenario) \/ Keypress \/ ClockTimers \/ Reset \/ Clock

SpecScenario == Init /\ [][NextScenario]_vars

\* The host with the call programs.
NextCall == Load(RomsCall) \/ Keypress \/ ClockTimers \/ Reset \/ Clock

SpecCall == Init /\ [][NextCall]_vars

\* ------------------------------------------------------------------------
\* Reset
\* ------------------------------------------------------------------------
\* C1: after reset() the machine is exactly the machine that construction
\* produces: pc = 0x200, registers, I, stack, stack pointer, timers, keys
\* and display zero or false, memory zero except the font table at 0..79.
ResetRestoresInit ==
    last.op = "reset" =>
        /\ Self = init
        /\ pc = START_ADDRESS /\ i_regi = 0 /\ stkp = 0
        /\ delay_t = 0 /\ sound_t = 0
        /\ \A r \in 0..(NUM_REGS - 1) : v_regi[r] = 0
        /\ \A i \in 0..(STACK_SIZE - 1) : stack[i] = 0
        /\ \A k \in 0..(NUM_KEYS - 1) : ~keys[k]
        /\ \A c \in 0..(SCREEN_WIDTH * SCREEN_HEIGHT - 1) : ~display[c]
        /\ \A a \in 0..(RAM_SIZE - 1) :
              ram[a] = IF a < FONTSET_SIZE THEN FONTSET[a + 1] ELSE 0

\* A reset of a machine in which every one of the ten fields differed from
\* its construction-time value.
ResetOfDirtyMachine == last.op = "reset" /\ last.b = 10

\* ------------------------------------------------------------------------
\* Load
\* ------------------------------------------------------------------------
\* C2: load(data) with Len(data) + 0x200 <= 4096 sets ram[0x200 + k] to
\* data[k] for every k < Len(data) and changes nothing else: not the memory
\* below 0x200 (the font table included) or beyond the copy, nor pc, the
\* registers, I, the stack, the stack pointer, the timers, the keys or the
\* display.  load(data) with Len(data) + 0x200 > 4096 is a fault.
LoadCopiesImage ==
    [][ last'.op = "load" =>
          LET data == last'.a
              n == Len(data)
          IN  IF n + START_ADDRESS <= RAM_SIZE
              THEN /\ fault' = "none"
                   /\ \A k \in 0..(n - 1) : ram'[START_ADDRESS + k] = data[k + 1]
                   /\ \A a \in 0..(RAM_SIZE - 1) :
                         (a < START_ADDRESS \/ a >= START_ADDRESS + n) => ram'[a] = ram[a]
                   /\ UNCHANGED << pc, v_regi, i_regi, display, stack, stkp,
                                   delay_t, sound_t, keys >>
              ELSE fault' # "none" ]_vars

\* An image that ends at the last byte of memory, loaded after a step and a
\* key press.
LoadedFullImage ==
    /\ last.op = "load"
    /\ Len(last.a) = RAM_SIZE - START_ADDRESS
    /\ fault = "none"
    /\ ram[RAM_SIZE - 2] = 48
    /\ pc = START_ADDRESS + 2
    /\ keys[1]

\* ------------------------------------------------------------------------
\* Timers
\* ------------------------------------------------------------------------
\* C3: a clock_timers call decrements the delay timer by exactly 1 if it is
\* nonzero and leaves it at 0 otherwise, does the same for the sound timer
\* independently, and changes nothing else; so no tick takes a timer below 0
\* or wraps it to 255.
TickDecrementsToFloor ==
    [][ last'.op = "tick" =>
          /\ delay_t' = (IF delay_t > 0 THEN delay_t - 1 ELSE 0)
          /\ sound_t' = (IF sound_t > 0 THEN sound_t - 1 ELSE 0)
          /\ delay_t' >= 0 /\ delay_t' <= delay_t
          /\ sound_t' >= 0 /\ sound_t' <= sound_t
          /\ UNCHANGED << pc, ram, v_regi, i_regi, display, stack, stkp, keys, fault >>
      ]_vars

\* The third tick after the delay timer was set to 3 and the sound timer,
\* one tick later, to 3: the delay timer is at its floor, the sound timer is
\* not.
TickedToFloor ==
    /\ last.op = "tick"
    /\ written = 3 /\ ticks = 3
    /\ delay_t = 0
    /\ sound_t = 1

\* ------------------------------------------------------------------------
\* The instruction table
\* ------------------------------------------------------------------------
\* The nibble patterns of the instruction table: those step() is specified
\* to execute.
Listed(opcode) ==
    LET d1 == opcode \div 4096
        d2 == (opcode \div 256) % 16
        d3 == (opcode \div 16) % 16
        d4 == opcode % 16
    IN  \/ d1 = 0 /\ d2 = 0 /\ << d3, d4 >> \in { << 0, 0 >>, << 14, 0 >>, << 14, 14 >> }
        \/ d1 \in { 1, 2, 3, 4, 6, 7, 10, 11, 12, 13 }
        \/ d1 = 5 /\ d4 = 0
        \/ d1 = 8 /\ d4 \in { 0, 1, 2, 3, 4, 5, 6, 7, 14 }
        \/ d1 = 9 /\ d4 = 0
        \/ d1 = 14 /\ << d3, d4 >> \in { << 9, 14 >>, << 10, 1 >> }
        \/ d1 = 15 /\ << d3, d4 >> \in { << 0, 7 >>, << 0, 10 >>, << 1, 5 >>, << 1, 8 >>,
                                        << 1, 14 >>, << 2, 9 >>, << 3, 3 >>, << 5, 5 >>,
                                        << 6, 5 >> }

\* C4: the instruction set is closed: a step() that fetches an opcode whose
\* nibbles are not in the instruction table is an unimplemented-opcode
\* fault; it executes neither as an instruction nor as a no-op.
UnlistedOpcodeFaults ==
    (last.op = "clock" /\ last.a >= 0 /\ ~Listed(last.a)) => fault = "unimplemented"

\* ------------------------------------------------------------------------
\* The font table
\* ------------------------------------------------------------------------
\* C5, as claimed: in every reachable state, memory offsets 0..79 hold the
\* font table.
FontTableIntact ==
    \A a \in 0..(FONTSET_SIZE - 1) : ram[a] = FONTSET[a + 1]

\* C5, amended: offsets 0..79 hold the font table after construction and
\* after every reset, and a call changes one of those bytes only if it is
\* reset or a step() that executes FX33 or FX55 with I < 80; load, tick,
\* keypress and every other instruction leave them as they are.
FontChangedOnlyByStoreBelow80 ==
    /\ FontTableIntact
    /\ [][ /\ last'.op = "reset" => FontTableIntact'
           /\ (\E a \in 0..(FONTSET_SIZE - 1) : ram'[a] # ram[a]) =>
                 \/ last'.op = "reset"
                 \/ /\ last'.op = "clock"
                    /\ last'.a >= 0
                    /\ Decode(last'.a) \in { "BCD", "STORE" }
                    /\ i_regi < FONTSET_SIZE
       ]_vars

\* FX55 executed with I = 80: the byte after the font table is written and
\* the font table is intact.
StoredJustAboveFont ==
    /\ last.op = "clock"
    /\ last.a >= 0
    /\ Decode(last.a) = "STORE"
    /\ i_regi = FONTSET_SIZE
    /\ ram[FONTSET_SIZE] = 170
    /\ FontTableIntact

\* ------------------------------------------------------------------------
\* The program counter
\* ------------------------------------------------------------------------
\* C6, as claimed: in every non-faulted state pc and pc + 1 both lie in
\* 0..4095.
PcValidBeforeFetch ==
    fault = "none" => (pc >= 0 /\ pc + 1 <= RAM_SIZE - 1)

\* The largest value pc takes: V0 + NNN with V0 = 0xFF and NNN = 0xFFF.
MaxPc == 4350

\* C6, amended: in every non-faulted state pc lies in 0..0xFFF+0xFF, and it
\* can lie above 0xFFE (after 1NNN, BNNN, a skip or the advance past the
\* last instruction).  The fetch of step() never reads outside memory: with
\* pc and pc + 1 in 0..4095 it reads ram[pc] and ram[pc + 1]; otherwise the
\* step is a fatal fault that changes nothing.
FetchStaysInMemory ==
    /\ pc = START_ADDRESS
    /\ [][ /\ fault' = "none" => (pc' >= 0 /\ pc' <= MaxPc)
           /\ last'.op = "clock" =>
                 IF pc + 1 <= RAM_SIZE - 1
                 THEN /\ last'.a = ram[pc] * 256 + ram[pc + 1]
                      /\ last'.b = pc
                 ELSE /\ last'.a = -1
                      /\ fault' = "index"
                      /\ UNCHANGED chip
       ]_vars

\* A step at pc = 0xFFF + 0xFF, where BFFF with V0 = 0xFF left it: the fetch
\* faulted.
FetchFaultedAboveMemory ==
    /\ last.op = "clock"
    /\ last.a = -1
    /\ pc = MaxPc
    /\ fault = "index"

\* ------------------------------------------------------------------------
\* The stack pointer
\* ------------------------------------------------------------------------
\* C7: the stack pointer of a running machine is within 0..16.  A call
\* (2NNN) with 16 return addresses on the stack and a return (00EE) with
\* none are fatal faults: the pointer does not become 17, and no step that
\* leaves the machine running takes it below 0 or wraps it; the stack keeps
\* its 16 slots and a faulting call or return writes none of them.
StackPointerInBounds ==
    /\ stkp = 0
    /\ [][ /\ fault' = "none" => (stkp' >= 0 /\ stkp' <= STACK_SIZE)
           /\ stkp' # STACK_SIZE + 1
           /\ DOMAIN stack' = 0..(STACK_SIZE - 1)
           /\ (last'.op = "clock" /\ last'.a >= 0 /\ Decode(last'.a) = "CALL") =>
                 IF stkp = STACK_SIZE
                 THEN fault' = "index" /\ stack' = stack /\ stkp' = stkp
                 ELSE fault' = "none" /\ stkp' = stkp + 1
           /\ (last'.op = "clock" /\ last'.a >= 0 /\ Decode(last'.a) = "RET") =>
                 IF stkp = 0
                 THEN fault' # "none" /\ stack' = stack
                 ELSE fault' = "none" /\ stkp' = stkp - 1 /\ stack' = stack
       ]_vars

\* The 17th nested call: the stack holds 16 return addresses and the call
\* faulted.
CallFaultedOnFullStack ==
    /\ last.op = "clock"
    /\ last.a >= 0
    /\ Decode(last.a) = "CALL"
    /\ stkp = STACK_SIZE
    /\ fault = "index"

\* ------------------------------------------------------------------------
\* Wait for key
\* ------------------------------------------------------------------------
\* C8: a step() that executes FX0A at address a with no key pressed leaves
\* the whole machine as it was (pc is a again, so the next step fetches the
\* same instruction); with a key pressed it sets VX to the index of the
\* lowest-numbered pressed key, leaves pc at a + 2 and changes nothing else.
WaitKeyIsRepoll ==
    [][ (last'.op = "clock" /\ last'.a >= 0 /\ Decode(last'.a) = "WAIT_KEY") =>
          LET x == (last'.a \div 256) % 16
              pressed == { k \in 0..(NUM_KEYS - 1) : keys[k] }
          IN  IF pressed = {}
              THEN /\ UNCHANGED << chip, fault >>
                   /\ pc' = last'.b
                   /\ ram'[pc'] * 256 + ram'[pc' + 1] = last'.a
              ELSE /\ \E low \in pressed :
                         /\ \A k \in pressed : low <= k
                         /\ v_regi' = [v_regi EXCEPT ![x] = low]
                   /\ pc' = last'.b + 2
                   /\ pc' = pc + 2
                   /\ UNCHANGED << ram, i_regi, display, stack, stkp, delay_t,
                                   sound_t, keys, fault >>
      ]_vars

\* FX0A executed at 0x200 with every key released: pc is 0x200 again.
WaitKeyRepolled ==
    /\ last.op = "clock"
    /\ last.a >= 0
    /\ Decode(last.a) = "WAIT_KEY"
    /\ last.b = START_ADDRESS
    /\ pc = START_ADDRESS
    /\ \A k \in 0..(NUM_KEYS - 1) : ~keys[k]
    /\ fault = "none"

\* ------------------------------------------------------------------------
\* Timers and steps
\* ------------------------------------------------------------------------
\* C9: step() never counts a timer down: a step leaves the delay timer as it
\* is unless the instruction is FX15 (it becomes VX) and the sound timer as
\* it is unless the instruction is FX18 (it becomes VX); FX07 copies the
\* delay timer to VX.  Hence, n ticks after FX15 wrote a value and with no
\* other FX15 since, the delay timer, and what FX07 reads, is
\* max(value - n, 0): written - ticks, ticks being n counted up to written.
StepLeavesTimersToTicks ==
    /\ delay_t = 0 /\ written = 0 /\ ticks = 0
    /\ [][ /\ (last'.op = "clock" /\ last'.a >= 0) =>
                 LET arm == Decode(last'.a)
                     x == (last'.a \div 256) % 16
                 IN  /\ delay_t' = (IF arm = "LD_DT" THEN v_regi[x] ELSE delay_t)
                     /\ sound_t' = (IF arm = "LD_ST" THEN v_regi[x] ELSE sound_t)
                     /\ arm = "LD_VX_DT" => v_regi'[x] = delay_t
                     /\ arm = "LD_VX_DT" => v_regi'[x] = written - ticks
           /\ (last'.op = "clock" /\ last'.a < 0) =>
                 UNCHANGED << delay_t, sound_t >>
           /\ fault' = "none" => delay_t' = written' - ticks'
           /\ ticks' >= 0 /\ ticks' <= written'
       ]_vars

\* FX07 two ticks after FX15 wrote 3: it read 1.
ReadTimerAfterTwoTicks ==
    /\ last.op = "clock"
    /\ last.a >= 0
    /\ Decode(last.a) = "LD_VX_DT"
    /\ written = 3 /\ ticks = 2
    /\ v_regi[1] = 1
    /\ delay_t = 1

\* ------------------------------------------------------------------------
\* Keys
\* ------------------------------------------------------------------------
\* C10: keypress(idx, pressed) with idx in 0..15 sets keys[idx] to pressed
\* and changes nothing else; with idx >= 16 it is a fault; and no step(),
\* tick() or load() changes a key.
KeysChangeOnlyByKeypress ==
    [][ /\ last'.op = "keypress" =>
              IF last'.a < NUM_KEYS
              THEN /\ keys' = [keys EXCEPT ![last'.a] = (last'.b = 1)]
                   /\ \A k \in 0..(NUM_KEYS - 1) : k # last'.a => keys'[k] = keys[k]
                   /\ UNCHANGED << pc, ram, v_regi, i_regi, display, stack, stkp,
                                   delay_t, sound_t, fault >>
              ELSE /\ fault' = "index"
                   /\ UNCHANGED chip
        /\ last'.op \in { "clock", "tick", "load" } => keys' = keys
      ]_vars

\* Key 1 released while key 0 stays pressed, on a machine that has executed
\* the key instructions.
ReleasedOneKey ==
    /\ last.op = "keypress"
    /\ last.a = 1 /\ last.b = 0
    /\ keys[0] /\ ~keys[1]
    /\ pc # START_ADDRESS
    /\ loads = 1
    /\ fault = "none"

\* ------------------------------------------------------------------------
\* C11: the display is changed by the instructions DXYN and 00E0 only: a
\* step that executes any other instruction or faults in its fetch, a timer
\* tick, a key event and a load leave every cell as it was; and a step that
\* executes 00E0 leaves every cell unset.
\* ------------------------------------------------------------------------
DisplayChangedOnlyByDrawAndClear ==
    [][ /\ last'.op \in {"tick", "keypress", "load"} => display' = display
        /\ last'.op = "clock" /\ last'.a = -1 => display' = display
        /\ last'.op = "clock" /\ last'.a # -1 =>
              /\ Decode(last'.a) \notin {"DRAW", "CLS"} => display' = display
              /\ Decode(last'.a) = "CLS" =>
                    \A c \in 0..(SCREEN_WIDTH * SCREEN_HEIGHT - 1) : ~display'[c]
      ]_vars

\* The font program has just executed its 00E0, after its DXYN had lit cells.
ClearedLitDisplay ==
    /\ last.op = "clock" /\ last.a = 224 /\ last.b = 530
    /\ loads = 1 /\ nops = 0
    /\ \A c \in 0..(SCREEN_WIDTH * SCREEN_HEIGHT - 1) : ~display[c]

\* ------------------------------------------------------------------------
\* C12: add-with-carry 8XY4, for all registers X and Y and all bytes a in VX
\* and b in VY.  As claimed, for X = 15 as well: VX is (a + b) mod 256 and VF
\* is 1 if a + b > 255 and 0 otherwise.
\* ------------------------------------------------------------------------
AddWithCarryAllRegisters ==
    [][ last'.op = "clock" /\ last'.a # -1 /\ Decode(last'.a) = "ADD_VY" =>
          LET x == D2(last'.a)
              y == D3(last'.a)
              a == v_regi[x]
              b == v_regi[y]
          IN  /\ v_regi'[x] = (a + b) % 256
              /\ v_regi'[15] = IF a + b > 255 THEN 1 ELSE 0
      ]_vars

\* C12, amended: after 8XY4, VF is 1 if a + b > 255 and 0 otherwise, for all
\* X and Y; VX is (a + b) mod 256 for X in 0..14.  With X = 15 the register
\* written is VF itself, and the flag, written last, is what it holds.
AddWithCarry ==
    [][ last'.op = "clock" /\ last'.a # -1 /\ Decode(last'.a) = "ADD_VY" =>
          LET x == D2(last'.a)
              y == D3(last'.a)
              a == v_regi[x]
              b == v_regi[y]
          IN  /\ x # 15 => v_regi'[x] = (a + b) % 256
              /\ v_regi'[15] = IF a + b > 255 THEN 1 ELSE 0
              /\ fault' = "none"
      ]_vars

\* 8F24 has just added to VF a byte that carried out of it, and VF holds
\* the flag.
AddedIntoFlagWithCarry ==
    /\ last.op = "clock" /\ last.a = 36644
    /\ v_regi[2] = 129 /\ v_regi[15] = 1

\* ------------------------------------------------------------------------
\* C13: subtract-with-borrow, for all registers X and Y and all bytes a in VX
\* and b in VY.  As claimed, for X = 15 as well: after 8XY5, if a < b then VF
\* is 0 and VX is (a - b) mod 256, and if a >= b then VF is 1; after 8XY7, VF
\* is 0 if b < a and 1 if b >= a.
\* ------------------------------------------------------------------------
SubWithBorrowAllRegisters ==
    [][ last'.op = "clock" /\ last'.a # -1 =>
          LET x == D2(last'.a)
              y == D3(last'.a)
              a == v_regi[x]
              b == v_regi[y]
          IN  /\ Decode(last'.a) = "SUB_VY" =>
                    /\ a < b => v_regi'[15] = 0 /\ v_regi'[x] = (a - b) % 256
                    /\ a >= b => v_regi'[15] = 1
              /\ Decode(last'.a) = "SUBN_VY" =>
                    /\ b < a => v_regi'[15] = 0
                    /\ b >= a => v_regi'[15] = 1
      ]_vars

\* C13, amended: after 8XY5, VF is 0 if a < b and 1 if a >= b, for all X and
\* Y, and if a < b and X is in 0..14 then VX is (a - b) mod 256; after 8XY7,
\* VF is 0 if b < a and 1 if b >= a.  With X = 15 the register written is VF
\* itself, and the flag, written last, is what it holds.
SubWithBorrow ==
    [][ last'.op = "clock" /\ last'.a # -1 =>
          LET x == D2(last'.a)
              y == D3(last'.a)
              a == v_regi[x]
              b == v_regi[y]
          IN  /\ Decode(last'.a) = "SUB_VY" =>
                    /\ a < b => v_regi'[15] = 0
                    /\ a < b /\ x # 15 => v_regi'[x] = (a - b) % 256
                    /\ a >= b => v_regi'[15] = 1
                    /\ fault' = "none"
              /\ Decode(last'.a) = "SUBN_VY" =>
                    /\ b < a => v_regi'[15] = 0
                    /\ b >= a => v_regi'[15] = 1
                    /\ fault' = "none"
      ]_vars

\* 8015 has just subtracted 129 from 1: V0 wrapped to 128 and VF tells the
\* borrow.
SubtractedWithBorrow ==
    /\ last.op = "clock" /\ last.a = 32789
    /\ v_regi[1] = 129 /\ v_regi[0] = 128 /\ v_regi[15] = 0

\* ------------------------------------------------------------------------
\* C14: two DXYN executed in succession with the same N, the same I (the
\* sprite bytes are then the same, DXYN writing no memory) and the same
\* coordinates VX, VY: the second leaves every display cell as it was before
\* the first, wrapped positions included, and leaves VF = 1 if the first
\* turned some cell from unset to set.
\* ------------------------------------------------------------------------
DrawTwiceRestores ==
    [][ /\ last.op = "clock" /\ last.a # -1 /\ Decode(last.a) = "DRAW"
        /\ last'.op = "clock" /\ last'.a # -1 /\ Decode(last'.a) = "DRAW"
        /\ D4(last'.a) = D4(last.a)
        /\ last'.c.i = last.c.i /\ last'.c.x = last.c.x /\ last'.c.y = last.c.y
        /\ fault' = "none"
        => /\ display' = last.c.display
           /\ (\E k \in 0..(SCREEN_WIDTH * SCREEN_HEIGHT - 1) :
                   ~last.c.display[k] /\ display[k]) => v_regi'[15] = 1
      ]_vars

\* The second D015 of the drawing program has just run at (63, 31): the
\* wrapped cell in row 31, column 0 is unset again, the cell of glyph "0" in
\* row 1, column 0 is set again, and VF tells the collision.
DrewTwiceAcrossTheEdges ==
    /\ last.op = "clock" /\ last.a = 53269 /\ last.b = 526
    /\ last.c.x = 63 /\ last.c.y = 31 /\ last.c.i = 75
    /\ ~display[1984] /\ display[64] /\ v_regi[15] = 1

\* ------------------------------------------------------------------------
\* C15: a DXYN that completes toggles exactly the cells ((VX + c) mod 64,
\* (VY + r) mod 32) with r in 0..N-1 and c in 0..7 such that bit c, counted
\* from the most significant, of memory[I + r] is set, and leaves every other
\* cell as it was; VF becomes 1 if one of the toggled cells was set and 0
\* otherwise (0 when N = 0).
\* ------------------------------------------------------------------------
DrawTogglesSpriteCells ==
    [][ last'.op = "clock" /\ last'.a # -1 /\ Decode(last'.a) = "DRAW"
        /\ fault' = "none" =>
          LET vx == v_regi[D2(last'.a)]
              vy == v_regi[D3(last'.a)]
              n == D4(last'.a)
              Toggled ==
                  { ((vx + rc[2]) % 64) + 64 * ((vy + rc[1]) % 32) :
                      rc \in { q \in (0..(n - 1)) \X (0..7) :
                                  Bit(ram[i_regi + q[1]], 7 - q[2]) = 1 } }
          IN  /\ display' = [k \in 0..(SCREEN_WIDTH * SCREEN_HEIGHT - 1) |->
                                IF k \in Toggled THEN ~display[k] ELSE display[k]]
              /\ v_regi'[15] = IF \E k \in Toggled : display[k] THEN 1 ELSE 0
              /\ n = 0 => v_regi'[15] = 0 /\ display' = display
      ]_vars

\* The first D015 of the drawing program has just run at (63, 31): the
\* second column of the sprite landed in column 0 of row 31 and its second
\* row in row 0.
DrewAcrossTheEdges ==
    /\ last.op = "clock" /\ last.a = 53269 /\ last.b = 524
    /\ last.c.x = 63 /\ last.c.y = 31 /\ last.c.i = 75
    /\ display[1984] /\ display[63] /\ ~last.c.display[1984] /\ ~last.c.display[63]

\* ------------------------------------------------------------------------
\* C16: FX33 with VX = v and I + 2 <= 4095 stores v div 100 at I,
\* (v div 10) mod 10 at I + 1 and v mod 10 at I + 2, so that the three bytes
\* read as decimal digits give v, and changes no other byte of memory, no
\* register and not I.
\* ------------------------------------------------------------------------
BcdStoresThreeDigits ==
    [][ last'.op = "clock" /\ last'.a # -1 /\ Decode(last'.a) = "BCD"
        /\ i_regi + 2 <= RAM_SIZE - 1 =>
          LET v == v_regi[D2(last'.a)]
          IN  /\ ram' = [ram EXCEPT ![i_regi] = v \div 100,
                                    ![i_regi + 1] = (v \div 10) % 10,
                                    ![i_regi + 2] = v % 10]
              /\ 100 * ram'[i_regi] + 10 * ram'[i_regi + 1] + ram'[i_regi + 2] = v
              /\ v_regi' = v_regi
              /\ i_regi' = i_regi
              /\ fault' = "none"
      ]_vars

\* FF33 has just stored the digits 2, 5, 5 of VF = 255 in the last three
\* bytes of memory.
StoredDigitsOf255AtTheEnd ==
    /\ last.op = "clock" /\ last.a = 65331
    /\ v_regi[15] = 255 /\ i_regi = 4093
    /\ ram[4093] = 2 /\ ram[4094] = 5 /\ ram[4095] = 5

\* ------------------------------------------------------------------------
\* C17: with I + X <= 4095, FX55 copies V0..VX to memory[I..I+X] and leaves
\* every other byte of memory, every register and I as they were; FX65
\* copies memory[I..I+X] to V0..VX and leaves every other register, memory
\* and I as they were; and an FX65 executed right after an FX55 with the
\* same X leaves the registers as they were before the FX55.
\* ------------------------------------------------------------------------
BlockTransfersAreInclusive ==
    [][ last'.op = "clock" /\ last'.a # -1 /\ i_regi + D2(last'.a) <= RAM_SIZE - 1 =>
          LET x == D2(last'.a)
          IN  /\ Decode(last'.a) = "STORE" =>
                    /\ ram' = [k \in 0..(RAM_SIZE - 1) |->
                                  IF i_regi <= k /\ k <= i_regi + x
                                  THEN v_regi[k - i_regi] ELSE ram[k]]
                    /\ v_regi' = v_regi
                    /\ i_regi' = i_regi
                    /\ fault' = "none"
              /\ Decode(last'.a) = "LOAD" =>
                    /\ v_regi' = [j \in 0..(NUM_REGS - 1) |->
                                     IF j <= x THEN ram[i_regi + j] ELSE v_regi[j]]
                    /\ ram' = ram
                    /\ i_regi' = i_regi
                    /\ fault' = "none"
              /\ /\ Decode(last'.a) = "LOAD"
                 /\ last.op = "clock" /\ last.a # -1 /\ Decode(last.a) = "STORE"
                 /\ D2(last.a) = x
                 => v_regi' = v_regi
      ]_vars

\* FF65 has just read back the sixteen registers that FF55 stored at 0x310.
TransferredAllSixteenAndBack ==
    /\ last.op = "clock" /\ last.a = 65381 /\ last.b = 534
    /\ i_regi = 784
    /\ v_regi[15] = 171 /\ ram[799] = 171 /\ v_regi[3] = 144 /\ ram[787] = 144

\* ------------------------------------------------------------------------
\* C18 and C19 are about a machine that was constructed (or reset), then
\* given one image by load, then stepped: FreshlyLoaded(data) tells such a
\* machine, at whatever step of the image it is.
\* ------------------------------------------------------------------------
FreshlyLoaded(data) ==
    /\ loads = 1 /\ nops = 0 /\ fault = "none"
    /\ ram = load(init, data).ram

\* The cells of rows 0..4 and columns 0..(width - 1) show the bits of the
\* five bytes rows, most significant bit in column 0.
TopLeftShows(rows, width) ==
    \A r \in 0..4, c \in 0..(width - 1) :
        display[SCREEN_WIDTH * r + c] = (Bit(rows[r + 1], 7 - c) = 1)

\* C18, as claimed: after load([0xA2,0x00,0x60,0x00,0x61,0x00,0xD0,0x15])
\* on a fresh machine and four steps, I is 0x200, V0 and V1 are 0, the top
\* left 5 rows by 4 columns of the display show the glyph "0" (1111, 1001,
\* 1001, 1001, 1111) and VF is 0.
DrawScenarioShowsGlyph ==
    FreshlyLoaded(RomDrawScenario) /\ pc = 520 =>
        /\ i_regi = 512 /\ v_regi[0] = 0 /\ v_regi[1] = 0
        /\ TopLeftShows(<< 240, 144, 144, 144, 240 >>, 4)
        /\ v_regi[15] = 0

\* C18, amended: after that load and four steps, I is 0x200, V0 and V1 are
\* 0, VF is 0, and the display shows, in rows 0..4 and columns 0..7, the
\* first five bytes of the image itself (0xA2, 0x00, 0x60, 0x00, 0x61, which
\* is what memory[0x200..0x204] holds; 1010, 0000, 0110, 0000, 0110 in the
\* first four columns) and nothing else.  The glyph "0" is at offset 0: it
\* is what the top left 5 by 4 cells show, with VF 0, when the image starts
\* with 0xA0, 0x00 (I = 0) instead.
DrawScenarioShowsImageBytes ==
    /\ FreshlyLoaded(RomDrawScenario) /\ pc = 520 =>
          /\ i_regi = 512 /\ v_regi[0] = 0 /\ v_regi[1] = 0
          /\ TopLeftShows(<< 162, 0, 96, 0, 97 >>, 8)
          /\ TopLeftShows(<< 160, 0, 96, 0, 96 >>, 4)
          /\ \A k \in 0..(SCREEN_WIDTH * SCREEN_HEIGHT - 1) :
                 k \div SCREEN_WIDTH > 4 \/ k % SCREEN_WIDTH > 7 => ~display[k]
          /\ v_regi[15] = 0
    /\ FreshlyLoaded(RomGlyphScenario) /\ pc = 520 =>
          /\ i_regi = 0 /\ v_regi[0] = 0 /\ v_regi[1] = 0
          /\ TopLeftShows(<< 240, 144, 144, 144, 240 >>, 4)
          /\ v_regi[15] = 0

\* The draw scenario has run its four steps.
DrawScenarioDone ==
    /\ FreshlyLoaded(RomDrawScenario) /\ pc = 520
    /\ last.op = "clock" /\ last.a = 53269 /\ last.b = 518
    /\ display[0] /\ ~display[1] /\ display[2]

\* ------------------------------------------------------------------------
\* C19: after load([0x60,0x05,0x61,0x03,0x80,0x14]) on a fresh machine, each
\* of the three steps executes the one instruction at pc and moves pc by 2,
\* and after the third V0 is 8, V1 is 3, VF is 0 and pc is 0x206.
\* ------------------------------------------------------------------------
ArithmeticScenario ==
    [][ FreshlyLoaded(RomArithScenario) /\ last'.op = "clock" /\ nops' = 0 =>
          /\ pc \in {512, 514, 516}
          /\ last'.a = 256 * ram[pc] + ram[pc + 1]
          /\ pc' = pc + 2
          /\ fault' = "none"
          /\ pc' = 514 => v_regi' = [v_regi EXCEPT ![0] = 5]
          /\ pc' = 516 => v_regi' = [v_regi EXCEPT ![1] = 3]
          /\ pc' = 518 => v_regi'[0] = 8 /\ v_regi'[1] = 3 /\ v_regi'[15] = 0
      ]_vars

\* The arithmetic scenario has run its three steps.
ArithmeticScenarioDone ==
    /\ FreshlyLoaded(RomArithScenario) /\ pc = 518
    /\ last.op = "clock" /\ last.a = 32788 /\ last.b = 516
    /\ v_regi[0] = 8

\* ------------------------------------------------------------------------
\* C20: a 2NNN executed at address a with stack pointer s < 16 sets pc to
\* NNN and the stack pointer to s + 1 and stores a + 2 in slot s; a 00EE
\* executed while calls are open sets pc to a + 2 for the address a of the
\* latest call still open, and the stack pointer to the number of calls
\* that remain open; and the stack pointer is the number of open calls
\* after every step that does not fault.  So the 00EE that finds the stack
\* pointer at s + 1 again returns to the call made at pointer s, and nested
\* calls return in the reverse of the order they were made in.
\* ------------------------------------------------------------------------
CallsReturnLastInFirstOut ==
    [][ /\ fault' = "none" => stkp' = Len(calls')
        /\ last'.op = "clock" /\ last'.a # -1 /\ Decode(last'.a) = "CALL"
           /\ stkp < STACK_SIZE =>
              /\ pc' = NNN(last'.a)
              /\ stkp' = stkp + 1
              /\ stack' = [stack EXCEPT ![stkp] = pc + 2]
              /\ fault' = "none"
        /\ last'.op = "clock" /\ last'.a # -1 /\ Decode(last'.a) = "RET"
           /\ calls # << >> =>
              /\ pc' = calls[Len(calls)] + 2
              /\ stkp' = Len(calls) - 1
              /\ calls' = SubSeq(calls, 1, Len(calls) - 1)
              /\ fault' = "none"
      ]_vars

\* The sixteenth nested subroutine has just returned to the fifteenth,
\* whose call at 0x23C is no longer open; the call at 0x200 is the oldest of
\* the fifteen that are.
ReturnedFromSixteenthCall ==
    /\ last.op = "clock" /\ last.a = 238 /\ last.b = 576
    /\ pc = 574 /\ stkp = 15
    /\ Len(calls) = 15 /\ calls[1] = 512 /\ calls[15] = 568

====
